---- MODULE Spec2Model ----
(***************************************************************************)
(* Meal record lifecycle of the protein tracker.  The repository holds two *)
(* variants of the application component:                                  *)
(*   "A"  src/App.tsx          (review modal, edit flow, back-dated add)   *)
(*   "B"  src/unnamed/part_000 (recognition result committed directly)     *)
(* Both keep the same React state (meals, goal, ...) and write it to the   *)
(* same localStorage keys.  A behaviour of the model runs one variant.     *)
(*                                                                         *)
(* Values:                                                                 *)
(*   - a JS string that the code inspects character by character (food    *)
(*     name, numeric input text) is a sequence of one-character strings;   *)
(*   - a JS number is [k, t]: t counts tenths, so 2.5 is t = 25;           *)
(*   - a possibly undefined value is [def, v];                             *)
(*   - an instant (epoch milliseconds) is [day, ms]: whole UTC days since  *)
(*     1970-01-01 and the milliseconds within that day;                    *)
(*   - a date key 'YYYY-MM-DD' is <<y, m, d>>, a month key <<y, m>>.       *)
(***************************************************************************)
EXTENDS Integers, Sequences, FiniteSets, TLC

(***************************************************************************)
(* Bounds of the model.                                                    *)
(***************************************************************************)
MaxSteps == 9       \* events (handler runs, completions, clock ticks) in a behaviour

(***************************************************************************)
(* JS numbers.                                                             *)
(***************************************************************************)
Num(t) == [k |-> "number", t |-> t]
NaN == [k |-> "NaN", t |-> 0]
NullNum == [k |-> "null", t |-> 0]      \* JSON null where a number is expected
IntNum(i) == Num(i * 10)
IsFinite(n) == n.k = "number"
IsIntegerNum(n) == n.k = "number" /\ n.t % 10 = 0

\* Math.round: the nearest integer, a half rounding toward +infinity;
\* Math.round(null) is 0, Math.round(NaN) and Math.round(undefined) are NaN.
MathRound(n) ==
    IF n.k = "NaN" THEN NaN
    ELSE IF n.k = "null" THEN Num(0)
    ELSE Num(((n.t + 5) \div 10) * 10)

(***************************************************************************)
(* JS strings as character sequences.                                      *)
(***************************************************************************)
DigitChars == <<"0", "1", "2", "3", "4", "5", "6", "7", "8", "9">>
IsDigit(c) == \E i \in 1..10 : DigitChars[i] = c
DigitVal(c) == (CHOOSE i \in 1..10 : DigitChars[i] = c) - 1
IsSpace(c) == c = " "

Drop(s, k) == SubSeq(s, k + 1, Len(s))

RECURSIVE TrimStart(_)
TrimStart(s) == IF s # <<>> /\ IsSpace(Head(s)) THEN TrimStart(Tail(s)) ELSE s

RECURSIVE TrimEnd(_)
TrimEnd(s) ==
    IF s # <<>> /\ IsSpace(s[Len(s)]) THEN TrimEnd(SubSeq(s, 1, Len(s) - 1)) ELSE s

\* String.prototype.trim
Trim(s) == TrimEnd(TrimStart(s))

\* the number of leading decimal digits of s
RECURSIVE DigitRun(_)
DigitRun(s) == IF s # <<>> /\ IsDigit(Head(s)) THEN 1 + DigitRun(Tail(s)) ELSE 0

\* the value of a sequence of decimal digits
RECURSIVE DigitsValue(_)
DigitsValue(s) ==
    IF s = <<>> THEN 0 ELSE DigitsValue(SubSeq(s, 1, Len(s) - 1)) * 10 + DigitVal(s[Len(s)])

RECURSIVE Pow10(_)
Pow10(k) == IF k <= 0 THEN 1 ELSE 10 * Pow10(k - 1)

HasSign(s) == s # <<>> /\ Head(s) \in {"-", "+"}
SignOf(s) == IF s # <<>> /\ Head(s) = "-" THEN -1 ELSE 1
Unsigned(s) == IF HasSign(s) THEN Tail(s) ELSE s

\* parseInt(s, 10): leading blanks, a sign, then the longest run of digits;
\* whatever follows the digits is ignored; no digit at all gives NaN.
parseInt(s) ==
    LET body == Unsigned(TrimStart(s))
        k == DigitRun(body)
    IN  IF k = 0 THEN NaN
        ELSE IntNum(SignOf(TrimStart(s)) * DigitsValue(SubSeq(body, 1, k)))

\* The longest prefix of body that is a decimal literal
\* digits [. digits] [e [sign] digits], as [ok, t, rest].  The value is kept
\* to one decimal.
DecimalPrefix(body) ==
    LET ki == DigitRun(body)
        afterInt == Drop(body, ki)
        hasDot == afterInt # <<>> /\ Head(afterInt) = "."
        kf == IF hasDot THEN DigitRun(Tail(afterInt)) ELSE 0
        afterFrac == IF hasDot /\ (ki > 0 \/ kf > 0) THEN Drop(afterInt, 1 + kf) ELSE afterInt
        intVal == DigitsValue(SubSeq(body, 1, ki))
        fracTenth == IF kf > 0 THEN DigitVal(afterInt[2]) ELSE 0
        mant == intVal * 10 + fracTenth
        hasE == afterFrac # <<>> /\ Head(afterFrac) \in {"e", "E"}
        expBody == IF hasE THEN Unsigned(Tail(afterFrac)) ELSE <<>>
        ke == DigitRun(expBody)
        expVal == DigitsValue(SubSeq(expBody, 1, ke))
        expNeg == hasE /\ SignOf(Tail(afterFrac)) = -1
        t == IF ke = 0 THEN mant
             ELSE IF expNeg THEN mant \div Pow10(expVal)
             ELSE mant * Pow10(expVal)
        rest == IF ke = 0 THEN afterFrac ELSE Drop(expBody, ke)
    IN  [ok |-> ki > 0 \/ kf > 0, t |-> t, rest |-> rest]

\* parseFloat(s): leading blanks, a sign, then the longest decimal literal;
\* trailing text is ignored; no literal gives NaN.
parseFloat(s) ==
    LET t0 == TrimStart(s)
        p == DecimalPrefix(Unsigned(t0))
    IN  IF p.ok THEN Num(SignOf(t0) * p.t) ELSE NaN

\* Number(s): the whole trimmed string must be a numeric literal; the empty
\* string converts to 0.
ToNumber(s) ==
    LET t0 == Trim(s)
        p == DecimalPrefix(Unsigned(t0))
    IN  IF t0 = <<>> THEN Num(0)
        ELSE IF p.ok /\ p.rest = <<>> THEN Num(SignOf(t0) * p.t)
        ELSE NaN

\* the decimal digits of a natural number
RECURSIVE NatDigits(_)
NatDigits(n) ==
    IF n < 10 THEN <<DigitChars[n + 1]>>
    ELSE NatDigits(n \div 10) \o <<DigitChars[(n % 10) + 1]>>

\* Number.prototype.toString()
NumToString(n) ==
    IF n.k = "NaN" THEN <<"N", "a", "N">>
    ELSE IF n.k = "null" THEN <<"n", "u", "l", "l">>
    ELSE LET a == IF n.t < 0 THEN -n.t ELSE n.t
             whole == NatDigits(a \div 10)
             frac == IF a % 10 = 0 THEN <<>> ELSE <<".", DigitChars[(a % 10) + 1]>>
         IN  (IF n.t < 0 THEN <<"-">> ELSE <<>>) \o whole \o frac

(***************************************************************************)
(* Calendar arithmetic of the JS Date object (proleptic Gregorian).        *)
(***************************************************************************)
DayMs == 24 * 60 * 60 * 1000
HourMs == 60 * 60 * 1000

\* days since 1970-01-01 of the civil date y-m-d
DaysFromCivil(y, m, d) ==
    LET yy == IF m <= 2 THEN y - 1 ELSE y
        era == yy \div 400
        yoe == yy - era * 400
        mp == IF m > 2 THEN m - 3 ELSE m + 9
        doy == (153 * mp + 2) \div 5 + d - 1
        doe == yoe * 365 + yoe \div 4 - yoe \div 100 + doy
    IN  era * 146097 + doe - 719468

\* the civil date <<y, m, d>> of a day number
CivilFromDays(z0) ==
    LET z == z0 + 719468
        era == z \div 146097
        doe == z - era * 146097
        yoe == (doe - doe \div 1460 + doe \div 36524 - doe \div 146096) \div 365
        doy == doe - (365 * yoe + yoe \div 4 - yoe \div 100)
        mp == (5 * doy + 2) \div 153
        d == doy - (153 * mp + 2) \div 5 + 1
        m == IF mp < 10 THEN mp + 3 ELSE mp - 9
        y == yoe + era * 400 + (IF m <= 2 THEN 1 ELSE 0)
    IN  <<y, m, d>>

\* the local wall clock of an instant under a fixed UTC offset (ms):
\* the local day number and the milliseconds into that local day
LocalDay(ts, off) == ts.day + ((ts.ms + off) \div DayMs)
LocalMs(ts, off) == (ts.ms + off) % DayMs

\* the instant whose local wall clock is (localDay, localMs)
FromLocal(localDay, localMs, off) ==
    [day |-> localDay + ((localMs - off) \div DayMs), ms |-> (localMs - off) % DayMs]

\* new Date(ts).toLocaleDateString('sv-SE'): the local date, 'YYYY-MM-DD'
toLocaleDateString(ts, off) == CivilFromDays(LocalDay(ts, off))

\* new Date('YYYY-MM-DD'): a date-only ISO string is read as UTC midnight
ParseDateOnly(key) == [day |-> DaysFromCivil(key[1], key[2], key[3]), ms |-> 0]

\* date.setHours(h, m, s): the local date and the milliseconds of `date` are
\* kept, the local hours, minutes and seconds replaced
SetHours(date, h, m, s, off) ==
    FromLocal(LocalDay(date, off),
              h * HourMs + m * 60000 + s * 1000 + (LocalMs(date, off) % 1000),
              off)

getHours(ts, off) == LocalMs(ts, off) \div HourMs
getMinutes(ts, off) == (LocalMs(ts, off) % HourMs) \div 60000
getSeconds(ts, off) == (LocalMs(ts, off) % 60000) \div 1000

\* b.timestamp - a.timestamp < 0, the order of the descending sort
Later(a, b) == a.day > b.day \/ (a.day = b.day /\ a.ms > b.ms)



(***************************************************************************)
(* Possibly undefined / null values.                                       *)
(***************************************************************************)
Some(v) == [def |-> TRUE, v |-> v]
UndefStr == [def |-> FALSE, v |-> <<>>]     \* undefined where a string is expected
UndefTok == [def |-> FALSE, v |-> ""]       \* undefined / null where a token is expected
UndefNum == [def |-> FALSE, v |-> NaN]      \* undefined where a number is expected
NullDate == <<>>                            \* selectedHistoryDate = null

\* JS truthiness of a possibly undefined token / character string
Truthy(x) == x.def /\ x.v # ""
TruthyStr(x) == x.def /\ x.v # <<>>

(***************************************************************************)
(* Inputs.                                                                 *)
(***************************************************************************)
Variants == {"A", "B"}
TzOffsets == {-5 * HourMs, 9 * HourMs}   \* local time = UTC + offset

\* the instants the clock passes through while the app is open (UTC)
SessionInstants ==
    << [day |-> DaysFromCivil(2024, 2, 29), ms |-> 10 * HourMs + 15 * 60000 + 30 * 1000 + 250],
       [day |-> DaysFromCivil(2024, 2, 29), ms |-> 22 * HourMs + 40 * 60000 + 5 * 1000 + 500] >>

\* other instants at which the app may be opened: a Sunday at the end of a
\* week that crosses a month end, the last day of a year, the first hours
\* of a year, and a day of a February of 28 days
CalendarInstants ==
    << [day |-> DaysFromCivil(2024, 3, 3), ms |-> 12 * HourMs],
       [day |-> DaysFromCivil(2024, 12, 31), ms |-> 12 * HourMs],
       [day |-> DaysFromCivil(2025, 1, 1), ms |-> 3 * HourMs],
       [day |-> DaysFromCivil(2025, 2, 15), ms |-> 12 * HourMs] >>

\* every value new Date() takes in the model
Instants == SessionInstants \o CalendarInstants

\* ids Math.random().toString(36).substr(2, 9) may return
Ids == {"k3x9", "q7m2"}

\* what the user may type as a food name / free text
FoodNameInputs == { <<" ">>, <<"e", "g", "g">> }
\* the value of a type="number" input: empty or a valid floating-point number
ProteinInputs == { <<"-", "5">>, <<"3", "0">> }
GoalInputs == { <<>>, <<"-", "5">>, <<"0">>, <<"2", ".", "5">>, <<"1", "e", "2">>, <<"8", "0">> }
Categories == {"Breakfast", "Lunch", "Dinner", "Snack", "Other"}
CategoryInputs == {"Dinner"}        \* the options the user picks in the model
ImageData == "jpeg"                         \* the resized image (opaque)

\* what JSON.parse of the recognition response may give
RecognitionResults ==
    { [foodName |-> Some(<<"e", "g", "g">>), proteinGrams |-> Some(Num(25)), category |-> Some("Lunch")],
      [foodName |-> Some(<<>>), proteinGrams |-> Some(Num(300)), category |-> Some("Brunch")],
      [foodName |-> UndefStr, proteinGrams |-> UndefNum, category |-> UndefTok] }
\* the call may also fail (service error, unparseable text)
RecognitionOutcomes == { [ok |-> TRUE, result |-> r] : r \in RecognitionResults }
                       \cup { [ok |-> FALSE, result |-> CHOOSE r \in RecognitionResults : ~r.foodName.def] }

\* bars of the history chart the user clicks in the model (1 = first bar)
BarPicks == {3, 4}

(***************************************************************************)
(* State.                                                                  *)
(***************************************************************************)
VARIABLES
    variant,              \* which App component runs
    tz,                   \* the local UTC offset (ms)
    clock,                \* index into Instants: the current time
    meals,                \* useState<MealLog[]>
    goal,                 \* useState<number>
    isEditingGoal,
    goalInput,            \* variant A: the text in the uncontrolled goal input
    currentView,
    historyPeriod,
    selectedHistoryDate,
    isAnalyzing,
    isInputModalOpen,     \* variant A
    editingMealId,        \* variant A
    pendingFoodName,      \* variant A
    pendingProtein,       \* variant A
    pendingCategory,      \* variant A
    pendingImage,         \* variant A
    pendingDate,          \* variant A
    isTextModalOpen,      \* variant B
    manualText,           \* variant B
    inflight,             \* asynchronous uploads: [reading, recImage, recText]
    storedMeals,          \* localStorage 'protein_meals_v2'
    storedGoal,           \* localStorage 'protein_goal'
    last,                 \* the handler that ran last: [op, id, arg, signal]
    steps                 \* events so far

envVars == <<variant, tz>>
goalVars == <<goal, isEditingGoal, goalInput>>
viewVars == <<currentView, historyPeriod, selectedHistoryDate>>
modalVars == <<isInputModalOpen, editingMealId, pendingFoodName, pendingProtein,
               pendingCategory, pendingImage, pendingDate>>
textVars == <<isTextModalOpen, manualText>>
vars == <<variant, tz, clock, meals, goal, isEditingGoal, goalInput, currentView,
          historyPeriod, selectedHistoryDate, isAnalyzing, isInputModalOpen,
          editingMealId, pendingFoodName, pendingProtein, pendingCategory,
          pendingImage, pendingDate, isTextModalOpen, manualText, inflight,
          storedMeals, storedGoal, last, steps>>

Now == Instants[clock]

\* new Date().toLocaleDateString('sv-SE')
todayStr == toLocaleDateString(Now, tz)

\* what `last` records of a handler run: the operation, the record id and the
\* argument it worked on, what it signalled to its caller (no handler of
\* either variant throws or returns a value), and the parsed recognition
\* result it worked on, if any
Op(op, id, arg) ==
    [op |-> op, id |-> id, arg |-> arg, signal |-> "none",
     result |-> [foodName |-> UndefStr, proteinGrams |-> UndefNum, category |-> UndefTok]]

\* one more event of the bounded behaviour
Step == steps < MaxSteps /\ steps' = steps + 1

(***************************************************************************)
(* Derived views.                                                          *)
(***************************************************************************)
\* the indices of meals whose local day key is `key`
DayIndices(ms, key, off) == { i \in 1..Len(ms) : toLocaleDateString(ms[i].timestamp, off) = key }

\* the elements of ms at the indices in S, in the order the descending sort
\* by timestamp leaves them (the sort is stable: ties keep the store's order)
RECURSIVE SortedDesc(_, _)
SortedDesc(ms, S) ==
    IF S = {} THEN <<>>
    ELSE LET i == CHOOSE j \in S : \A h \in S \ {j} :
                      \/ Later(ms[j].timestamp, ms[h].timestamp)
                      \/ (ms[j].timestamp = ms[h].timestamp /\ j < h)
         IN  <<ms[i]>> \o SortedDesc(ms, S \ {i})

\* mutant: the sort orders the store itself
filterSortInPlace(ms, S) == [store |-> SortedDesc(ms, 1..Len(ms)), value |-> SortedDesc(ms, S)]

\* ms.filter(p).sort(cmp), S the indices p accepts: filter builds a new
\* array and sort orders that array in place; `store` is the array ms
\* afterwards, `value` the array returned
filterSort(ms, S) == [store |-> ms, value |-> SortedDesc(ms, S)]

todayMealsOf(ms, key, off) == filterSort(ms, DayIndices(ms, key, off)).value
todayMeals == todayMealsOf(meals, todayStr, tz)

\* is `prefix` a prefix of `key` (String.prototype.startsWith)
StartsWith(key, prefix) ==
    Len(prefix) <= Len(key) /\ SubSeq(key, 1, Len(prefix)) = prefix

\* mutant: the records are matched by their UTC date
selectedDayMealsUtc ==
    IF selectedHistoryDate = NullDate THEN <<>>
    ELSE SortedDesc(meals, { i \in 1..Len(meals) :
             StartsWith(CivilFromDays(meals[i].timestamp.day), selectedHistoryDate) })

\* the list shown under a selected history bucket
selectedDayMeals ==
    IF selectedHistoryDate = NullDate THEN <<>>
    ELSE IF variant = "A" \/ historyPeriod = "week"
         THEN SortedDesc(meals, DayIndices(meals, selectedHistoryDate, tz))
         ELSE SortedDesc(meals, { i \in 1..Len(meals) :
                  StartsWith(toLocaleDateString(meals[i].timestamp, tz), selectedHistoryDate) })

Range(s) == { s[i] : i \in 1..Len(s) }

\* the records that have a card (with its edit / delete buttons) on screen
renderedMeals ==
    IF currentView = "daily" THEN Range(todayMeals)
    ELSE IF selectedHistoryDate # NullDate /\ (variant = "B" \/ historyPeriod = "week")
         THEN Range(selectedDayMeals)
         ELSE {}

(***************************************************************************)
(* The daily statistics.                                                   *)
(***************************************************************************)
\* a + b of two JS numbers: NaN absorbs, a null read back from storage is 0
Plus(a, b) == IF a.k = "NaN" \/ b.k = "NaN" THEN NaN ELSE Num(a.t + b.t)

\* list.reduce((acc, curr) => ({ protein: acc.protein + curr.proteinGrams }), acc)
RECURSIVE reduceProtein(_, _)
reduceProtein(list, acc) ==
    IF list = <<>> THEN acc
    ELSE reduceProtein(Tail(list), Plus(acc, Head(list).proteinGrams))

\* mutant: the total of the whole store
todayStatsAll == reduceProtein(meals, Num(0))

\* todayStats.protein
todayStats == reduceProtein(todayMeals, Num(0))

\* Math.min((total / goal) * 100, 100) as the exact fraction n / d (d > 0);
\* x / 0 is +Infinity, -Infinity or NaN (0 / 0), and Math.min keeps
\* -Infinity and NaN
progressPercentOf(total, g) ==
    IF total.k = "NaN" \/ g.k = "NaN" THEN [k |-> "NaN", n |-> 0, d |-> 1]
    ELSE IF g.t = 0
         THEN IF total.t = 0 THEN [k |-> "NaN", n |-> 0, d |-> 1]
              ELSE IF total.t > 0 THEN [k |-> "number", n |-> 100, d |-> 1]
              ELSE [k |-> "-Infinity", n |-> 0, d |-> 1]
    ELSE LET sgn == IF g.t < 0 THEN -1 ELSE 1
             n == sgn * total.t * 100
             d == sgn * g.t
         IN  IF n >= 100 * d THEN [k |-> "number", n |-> 100, d |-> 1]
             ELSE [k |-> "number", n |-> n, d |-> d]

progressPercent == progressPercentOf(todayStats, goal)

\* mutant: the difference without the floor at 0
remainingOfUnfloored(total, g) ==
    IF total.k = "NaN" \/ g.k = "NaN" THEN NaN ELSE Num(g.t - total.t)

\* Math.max(goal - total, 0)
remainingOf(total, g) ==
    IF total.k = "NaN" \/ g.k = "NaN" THEN NaN
    ELSE IF g.t - total.t > 0 THEN Num(g.t - total.t) ELSE Num(0)

remaining == remainingOf(todayStats, goal)

(***************************************************************************)
(* History buckets (historyData).                                          *)
(***************************************************************************)
\* new Date(y, m0, d): local midnight of day d of month m0 (0-based) of year
\* y; a month outside 0..11 or a day outside the month rolls over
MakeLocalDate(y, m0, d, off) ==
    LET yy == y + (m0 \div 12)
        mm == (m0 % 12) + 1
    IN  FromLocal(DaysFromCivil(yy, mm, 1) + d - 1, 0, off)

getFullYear(ts, off) == CivilFromDays(LocalDay(ts, off))[1]
getMonth(ts, off) == CivilFromDays(LocalDay(ts, off))[2] - 1      \* 0-based
getDate(ts, off) == CivilFromDays(LocalDay(ts, off))[3]
getDay(ts, off) == (LocalDay(ts, off) + 4) % 7                    \* 0 = Sunday

\* date.setDate(n): day n of the local month of `date`, same local time
setDate(date, n, off) ==
    FromLocal(DaysFromCivil(getFullYear(date, off), getMonth(date, off) + 1, 1) + n - 1,
              LocalMs(date, off), off)

\* mutant: Sunday is not counted as the last day of the week
startOfWeekSundayFirst(now, off) ==
    LET day == getDay(now, off)
        diff == getDate(now, off) - (day - 1)
    IN  MakeLocalDate(getFullYear(now, off), getMonth(now, off), diff, off)

\* the Monday of the week of `now`, at local midnight
startOfWeek(now, off) ==
    LET day == getDay(now, off)
        diff == getDate(now, off) - (IF day = 0 THEN 6 ELSE day - 1)
    IN  MakeLocalDate(getFullYear(now, off), getMonth(now, off), diff, off)

\* the day key of bar i (0..6) of the weekly chart
weekKey(now, off, i) ==
    LET sow == startOfWeek(now, off)
    IN  toLocaleDateString(setDate(sow, getDate(sow, off) + i, off), off)

\* sum of proteinGrams (a JS sum: NaN absorbs, null counts 0) in tenths
RECURSIVE SumProtein(_, _)
SumProtein(ms, S) ==
    IF S = {} THEN Num(0)
    ELSE LET i == CHOOSE j \in S : TRUE
             rest == SumProtein(ms, S \ {i})
             p == ms[i].proteinGrams
         IN  IF rest.k = "NaN" \/ p.k = "NaN" THEN NaN ELSE Num(rest.t + p.t)

\* d.toISOString().slice(0, 7): the UTC year and month
isoMonth(ts) == SubSeq(CivilFromDays(ts.day), 1, 2)

\* new Date(y, m0 + 1, 0).getDate(): the number of days of local month m0
daysInMonth(y, m0, off) == getDate(MakeLocalDate(y, m0 + 1, 0, off), off)

weekSummary(ms, g, now, off, i) ==
    LET ds == weekKey(now, off, i)
    IN  [date |-> ds, totalProtein |-> SumProtein(ms, DayIndices(ms, ds, off)), goal |-> g]

\* variant A: months now-2 .. now+2, keyed and matched by UTC month
monthSummaryA(ms, g, now, off, i) ==
    LET d == MakeLocalDate(getFullYear(now, off), getMonth(now, off) + i, 1, off)
        monthStr == isoMonth(d)
        S == { j \in 1..Len(ms) : isoMonth(ms[j].timestamp) = monthStr }
        dim == daysInMonth(getFullYear(d, off), getMonth(d, off), off)
    IN  [date |-> monthStr, totalProtein |-> SumProtein(ms, S),
         goal |-> IF g.k = "number" THEN Num(g.t * dim) ELSE g]

\* variant B: months now-5 .. now, keyed and matched by local month
monthSummaryB(ms, g, now, off, i) ==
    LET d == MakeLocalDate(getFullYear(now, off), getMonth(now, off) - i, 1, off)
        year == getFullYear(d, off)
        month == getMonth(d, off)
        S == { j \in 1..Len(ms) : /\ getFullYear(ms[j].timestamp, off) = year
                                  /\ getMonth(ms[j].timestamp, off) = month }
    IN  [date |-> <<year, month + 1>>, totalProtein |-> SumProtein(ms, S),
         goal |-> IF g.k = "number" THEN Num(g.t * 30) ELSE g]

\* historyData as the component computes it
historyDataOf(v, period, ms, g, now, off) ==
    IF period = "week" THEN [i \in 1..7 |-> weekSummary(ms, g, now, off, i - 1)]
    ELSE IF v = "A" THEN [i \in 1..5 |-> monthSummaryA(ms, g, now, off, i - 3)]
    ELSE [i \in 1..6 |-> monthSummaryB(ms, g, now, off, 6 - i)]

historyData == historyDataOf(variant, historyPeriod, meals, goal, Now, tz)

(***************************************************************************)
(* Persistence: both values are rewritten in full after every change.      *)
(***************************************************************************)
DefaultGoalA == 60
DefaultGoalB == 120
DefaultGoal(v) == IF v = "A" THEN IntNum(DefaultGoalA) ELSE IntNum(DefaultGoalB)

\* JSON.stringify(meals): NaN is written as null, undefined fields are left out
Stringify(ms) ==
    [i \in 1..Len(ms) |->
        IF ms[i].proteinGrams.k = "NaN" THEN [ms[i] EXCEPT !.proteinGrams = NullNum] ELSE ms[i]]

\* the two useEffect hooks, run after the render that follows a change
Persist ==
    /\ storedMeals' = Stringify(meals')
    /\ storedGoal' = NumToString(goal')

(***************************************************************************)
(* Initial state: first start, nothing persisted.                          *)
(***************************************************************************)
Init ==
    /\ variant \in Variants
    /\ tz \in TzOffsets
    /\ clock = 1
    /\ meals = <<>>
    /\ goal = DefaultGoal(variant)
    /\ isEditingGoal = FALSE
    /\ goalInput = <<>>
    /\ currentView = "daily"
    /\ historyPeriod = "week"
    /\ selectedHistoryDate = NullDate
    /\ isAnalyzing = FALSE
    /\ isInputModalOpen = FALSE
    /\ editingMealId = UndefTok
    /\ pendingFoodName = <<>>
    /\ pendingProtein = <<>>
    /\ pendingCategory = "Other"
    /\ pendingImage = UndefTok
    /\ pendingDate = toLocaleDateString(Instants[1], tz)
    /\ isTextModalOpen = FALSE
    /\ manualText = <<>>
    /\ inflight = [reading |-> 0, recImage |-> 0, recText |-> 0]
    /\ storedMeals = <<>>
    /\ storedGoal = NumToString(DefaultGoal(variant))
    /\ last = Op("init", "", <<>>)
    /\ steps = 0

\* The page is loaded again: every useState initializer runs on the
\* persisted values; pending asynchronous work is gone.
Restart ==
    /\ Step
    /\ meals' = storedMeals
    /\ goal' = IF storedGoal # <<>> THEN parseInt(storedGoal) ELSE DefaultGoal(variant)
    /\ isEditingGoal' = FALSE
    /\ goalInput' = <<>>
    /\ currentView' = "daily"
    /\ historyPeriod' = "week"
    /\ selectedHistoryDate' = NullDate
    /\ isAnalyzing' = FALSE
    /\ isInputModalOpen' = FALSE
    /\ editingMealId' = UndefTok
    /\ pendingFoodName' = <<>>
    /\ pendingProtein' = <<>>
    /\ pendingCategory' = "Other"
    /\ pendingImage' = UndefTok
    /\ pendingDate' = todayStr
    /\ isTextModalOpen' = FALSE
    /\ manualText' = <<>>
    /\ inflight' = [reading |-> 0, recImage |-> 0, recText |-> 0]
    /\ Persist
    /\ last' = Op("restart", "", <<>>)
    /\ UNCHANGED <<envVars, clock>>

\* time passes
Tick ==
    /\ Step
    /\ clock < Len(SessionInstants)
    /\ clock' = clock + 1
    /\ last' = Op("ui", "", <<>>)
    /\ UNCHANGED <<envVars, meals, goalVars, viewVars, isAnalyzing, modalVars, textVars,
                   inflight, storedMeals, storedGoal>>

(***************************************************************************)
(* Navigation (both variants).                                             *)
(***************************************************************************)
\* variant A: the two tab buttons; variant B: the toggle button, which also
\* clears the selected bucket
setCurrentView ==
    /\ Step
    /\ \/ /\ variant = "A"
          /\ \E v \in {"daily", "history"} : currentView' = v
          /\ UNCHANGED <<historyPeriod, selectedHistoryDate>>
       \/ /\ variant = "B"
          /\ currentView' = (IF currentView = "daily" THEN "history" ELSE "daily")
          /\ selectedHistoryDate' = NullDate
          /\ UNCHANGED historyPeriod
    \* variant A: the goal input lives in the daily view; it is unmounted
    \* with the view and mounted again with defaultValue = goal
    /\ goalInput' = (IF variant = "A" /\ isEditingGoal /\ currentView' # currentView
                     THEN (IF currentView' = "daily" THEN NumToString(goal) ELSE <<>>)
                     ELSE goalInput)
    /\ last' = Op("ui", "", <<>>)
    /\ UNCHANGED <<envVars, clock, meals, goal, isEditingGoal, isAnalyzing, modalVars, textVars,
                   inflight, storedMeals, storedGoal>>

\* variant A clears the selected day; variant B shows the buttons only while
\* no bucket is selected
setHistoryPeriod ==
    /\ Step
    /\ currentView = "history"
    /\ \E p \in {"week", "month"} :
         /\ historyPeriod' = p
         /\ \/ variant = "A" /\ selectedHistoryDate' = NullDate
            \/ variant = "B" /\ selectedHistoryDate = NullDate
                             /\ UNCHANGED selectedHistoryDate
    /\ last' = Op("ui", "", <<>>)
    /\ UNCHANGED <<envVars, clock, meals, goalVars, currentView, isAnalyzing, modalVars,
                   textVars, inflight, storedMeals, storedGoal>>

\* a click on bar i of the chart (variant A: weekly chart only), or on the
\* button that closes the drill-down
setSelectedHistoryDate ==
    /\ Step
    /\ currentView = "history"
    /\ \/ /\ \E i \in BarPicks \cap DOMAIN historyData :
               /\ variant = "A" => historyPeriod = "week"
               /\ variant = "B" => selectedHistoryDate = NullDate
               /\ selectedHistoryDate' = historyData[i].date
       \/ /\ selectedHistoryDate # NullDate
          /\ variant = "A" => historyPeriod = "week"
          /\ selectedHistoryDate' = NullDate
    /\ last' = Op("ui", "", <<>>)
    /\ UNCHANGED <<envVars, clock, meals, goalVars, currentView, historyPeriod, isAnalyzing,
                   modalVars, textVars, inflight, storedMeals, storedGoal>>

(***************************************************************************)
(* The store operations.                                                   *)
(***************************************************************************)
\* mutant: the edit also moves the record to the date and time of the save
updateMealsRestamp(ms, id, name, protein, category, image) ==
    [i \in 1..Len(ms) |->
        IF ms[i].id = id
        THEN [ms[i] EXCEPT !.foodName = name, !.proteinGrams = protein,
                           !.category = category, !.imageUrl = image,
                           !.timestamp = Instants[clock]]
        ELSE ms[i]]

\* mutant: an edit that matches no record adds the patch as a new record
updateMealsUpsert(ms, id, name, protein, category, image) ==
    IF \E i \in 1..Len(ms) : ms[i].id = id
    THEN [i \in 1..Len(ms) |->
            IF ms[i].id = id
            THEN [ms[i] EXCEPT !.foodName = name, !.proteinGrams = protein,
                               !.category = category, !.imageUrl = image]
            ELSE ms[i]]
    ELSE <<[id |-> id, timestamp |-> Instants[clock], foodName |-> name,
            proteinGrams |-> protein, category |-> category, imageUrl |-> image]>> \o ms

\* prev.map(meal => meal.id === id ? {...meal, <patch>} : meal)
updateMeals(ms, id, name, protein, category, image) ==
    [i \in 1..Len(ms) |->
        IF ms[i].id = id
        THEN [ms[i] EXCEPT !.foodName = name, !.proteinGrams = protein,
                           !.category = category, !.imageUrl = image]
        ELSE ms[i]]

\* mutant: only the first record with the id is removed
RECURSIVE filterOutFirst(_, _)
filterOutFirst(ms, id) ==
    IF ms = <<>> THEN <<>>
    ELSE IF Head(ms).id = id THEN Tail(ms)
    ELSE <<Head(ms)>> \o filterOutFirst(Tail(ms), id)

\* prev.filter(m => m.id !== id)
RECURSIVE filterOut(_, _)
filterOut(ms, id) ==
    IF ms = <<>> THEN <<>>
    ELSE IF Head(ms).id = id THEN filterOut(Tail(ms), id)
    ELSE <<Head(ms)>> \o filterOut(Tail(ms), id)

\* mutant: the new record takes the place of the records with its id
prependReplacing(meal, ms) == <<meal>> \o filterOut(ms, meal.id)

\* [newMeal, ...prev]
prepend(meal, ms) == <<meal>> \o ms

\* the timestamp of a new record of variant A: the target date read as a
\* date-only string, then given the current local hours, minutes and seconds
newTimestamp(dateKey, now, off) ==
    SetHours(ParseDateOnly(dateKey), getHours(now, off), getMinutes(now, off),
             getSeconds(now, off), off)

\* (result.category as MealCategory) || 'Other'
categoryOf(c) == IF Truthy(c) THEN c.v ELSE "Other"

(***************************************************************************)
(* Variant A: the review modal.                                            *)
(***************************************************************************)
\* mutant: an empty name argument keeps the name left in the form
openAddModalKeepName(img, name, date, protein, category, mealId) ==
    /\ editingMealId' = mealId
    /\ pendingImage' = img
    /\ pendingFoodName' = (IF name = <<>> THEN pendingFoodName ELSE name)
    /\ pendingProtein' = protein
    /\ pendingCategory' = category
    /\ pendingDate' = (IF date # NullDate THEN date ELSE todayStr)
    /\ isInputModalOpen' = TRUE

openAddModal(img, name, date, protein, category, mealId) ==
    /\ editingMealId' = mealId
    /\ pendingImage' = img
    /\ pendingFoodName' = name
    /\ pendingProtein' = protein
    /\ pendingCategory' = category
    /\ pendingDate' = (IF date # NullDate THEN date ELSE todayStr)
    /\ isInputModalOpen' = TRUE

\* the "manual entry" button of the daily view: openAddModal()
clickManualAdd ==
    /\ Step
    /\ variant = "A"
    /\ currentView = "daily"
    /\ openAddModal(UndefTok, <<>>, NullDate, <<>>, "Other", UndefTok)
    /\ last' = Op("open", "", <<>>)
    /\ UNCHANGED <<envVars, clock, meals, goalVars, viewVars, isAnalyzing, textVars,
                   inflight, storedMeals, storedGoal>>

\* the "add" button of the selected day: openAddModal(undefined, '', selectedHistoryDate)
clickHistoryAdd ==
    /\ Step
    /\ variant = "A"
    /\ currentView = "history"
    /\ selectedHistoryDate # NullDate
    /\ historyPeriod = "week"
    /\ openAddModal(UndefTok, <<>>, selectedHistoryDate, <<>>, "Other", UndefTok)
    /\ last' = Op("open", "", <<>>)
    /\ UNCHANGED <<envVars, clock, meals, goalVars, viewVars, isAnalyzing, textVars,
                   inflight, storedMeals, storedGoal>>

handleEditMeal ==
    /\ Step
    /\ variant = "A"
    /\ \E meal \in renderedMeals :
         /\ openAddModal(meal.imageUrl,
                         IF meal.foodName.def THEN meal.foodName.v ELSE <<>>,
                         toLocaleDateString(meal.timestamp, tz),
                         NumToString(meal.proteinGrams),
                         meal.category,
                         Some(meal.id))
         /\ last' = Op("edit", meal.id, <<>>)
    /\ UNCHANGED <<envVars, clock, meals, goalVars, viewVars, isAnalyzing, textVars,
                   inflight, storedMeals, storedGoal>>

\* the onChange handlers of the three form fields
setPending ==
    /\ Step
    /\ variant = "A"
    /\ isInputModalOpen
    /\ \/ \E v \in FoodNameInputs :
            pendingFoodName' = v /\ UNCHANGED <<pendingProtein, pendingCategory>>
       \/ \E v \in ProteinInputs :
            pendingProtein' = v /\ UNCHANGED <<pendingFoodName, pendingCategory>>
       \/ \E v \in CategoryInputs :
            pendingCategory' = v /\ UNCHANGED <<pendingFoodName, pendingProtein>>
    /\ last' = Op("ui", "", <<>>)
    /\ UNCHANGED <<envVars, clock, meals, goalVars, viewVars, isAnalyzing, isInputModalOpen,
                   editingMealId, pendingImage, pendingDate, textVars, inflight,
                   storedMeals, storedGoal>>

\* mutant: the close button leaves the edit target set
closeModalKeepTarget ==
    /\ Step
    /\ variant = "A"
    /\ isInputModalOpen
    /\ isInputModalOpen' = FALSE
    /\ last' = Op("close", "", <<>>)
    /\ UNCHANGED <<envVars, clock, meals, goalVars, viewVars, isAnalyzing, pendingFoodName,
                   pendingProtein, pendingCategory, pendingImage, pendingDate, editingMealId,
                   textVars, inflight, storedMeals, storedGoal>>

\* the close button of the modal
closeModal ==
    /\ Step
    /\ variant = "A"
    /\ isInputModalOpen
    /\ isInputModalOpen' = FALSE
    /\ editingMealId' = UndefTok
    /\ last' = Op("close", "", <<>>)
    /\ UNCHANGED <<envVars, clock, meals, goalVars, viewVars, isAnalyzing, pendingFoodName,
                   pendingProtein, pendingCategory, pendingImage, pendingDate, textVars,
                   inflight, storedMeals, storedGoal>>

\* handleSaveMeal, first lines: the submit is dropped
saveRejected ==
    /\ Trim(pendingFoodName) = <<>> \/ parseFloat(pendingProtein).k = "NaN"
    /\ last' = Op("rejected", "", <<>>)
    /\ UNCHANGED <<meals, modalVars, storedMeals, storedGoal>>

\* handleSaveMeal, editingMealId set: the record is patched in place
saveUpdate ==
    /\ ~(Trim(pendingFoodName) = <<>> \/ parseFloat(pendingProtein).k = "NaN")
    /\ Truthy(editingMealId)
    /\ meals' = updateMeals(meals, editingMealId.v, Some(pendingFoodName),
                            MathRound(parseFloat(pendingProtein)), pendingCategory,
                            pendingImage)
    /\ last' = Op("update", editingMealId.v, <<>>)

\* handleSaveMeal, no editingMealId: a new record is prepended
saveCreate ==
    /\ ~(Trim(pendingFoodName) = <<>> \/ parseFloat(pendingProtein).k = "NaN")
    /\ ~Truthy(editingMealId)
    /\ \E id \in Ids :
         /\ meals' = prepend([id |-> id,
                              timestamp |-> newTimestamp(pendingDate, Now, tz),
                              foodName |-> Some(pendingFoodName),
                              proteinGrams |-> MathRound(parseFloat(pendingProtein)),
                              category |-> pendingCategory,
                              imageUrl |-> pendingImage], meals)
         /\ last' = Op("create", id, pendingDate)

handleSaveMeal ==
    /\ Step
    /\ variant = "A"
    /\ isInputModalOpen
    /\ goal' = goal
    /\ \/ saveRejected
       \/ /\ saveUpdate \/ saveCreate
          /\ isInputModalOpen' = FALSE
          /\ editingMealId' = UndefTok
          /\ pendingImage' = UndefTok
          /\ UNCHANGED <<pendingFoodName, pendingProtein, pendingCategory, pendingDate>>
          /\ Persist
    /\ UNCHANGED <<envVars, clock, isEditingGoal, goalInput, viewVars, isAnalyzing, textVars,
                   inflight>>

\* deleteMeal(id) from a card on screen; the user answers the confirm dialog
deleteMeal ==
    /\ Step
    /\ \E meal \in renderedMeals, confirmed \in BOOLEAN :
         /\ meals' = (IF confirmed THEN filterOut(meals, meal.id) ELSE meals)
         /\ last' = Op(IF confirmed THEN "delete" ELSE "deleteCancelled", meal.id, <<>>)
    /\ goal' = goal
    /\ Persist
    /\ UNCHANGED <<envVars, clock, isEditingGoal, goalInput, viewVars, isAnalyzing, modalVars,
                   textVars, inflight>>


(***************************************************************************)
(* Asynchronous capture.  An upload first reads and resizes the file       *)
(* (inflight.reading), then waits for the recognition call                 *)
(* (inflight.recImage; inflight.recText for a text entry of variant B).    *)
(***************************************************************************)
InFlight == inflight.reading + inflight.recImage + inflight.recText

\* handleImageUpload: a file was chosen with the camera or the album button
\* (variant B disables both buttons while isAnalyzing)
handleImageUpload ==
    /\ Step
    /\ currentView = "daily"
    /\ variant = "B" => ~isAnalyzing
    /\ inflight' = [inflight EXCEPT !.reading = @ + 1]
    /\ last' = Op("ui", "", <<>>)
    /\ UNCHANGED <<envVars, clock, meals, goalVars, viewVars, isAnalyzing, modalVars, textVars,
                   storedMeals, storedGoal>>

\* reader.onloadend, once resizeImage has resolved: the recognition call is
\* issued (variant A inline, variant B in analyzeMeal)
readerLoadEnd ==
    /\ Step
    /\ inflight.reading > 0
    /\ inflight' = [inflight EXCEPT !.reading = @ - 1, !.recImage = @ + 1]
    /\ isAnalyzing' = TRUE
    /\ last' = Op("ui", "", <<>>)
    /\ UNCHANGED <<envVars, clock, meals, goalVars, viewVars, modalVars, textVars,
                   storedMeals, storedGoal>>

\* variant A: the recognition call of an upload settles
recognitionSettledA ==
    /\ Step
    /\ variant = "A"
    /\ inflight.recImage > 0
    /\ inflight' = [inflight EXCEPT !.recImage = @ - 1]
    /\ \E out \in RecognitionOutcomes :
         IF out.ok
         THEN /\ openAddModal(Some(ImageData),
                              IF TruthyStr(out.result.foodName) THEN out.result.foodName.v ELSE <<>>,
                              NullDate,
                              IF out.result.proteinGrams.def
                                  THEN NumToString(out.result.proteinGrams.v) ELSE <<>>,
                              categoryOf(out.result.category),
                              UndefTok)
              /\ last' = [Op("recognized", "", out.result.category) EXCEPT !.result = out.result]
         ELSE /\ openAddModal(Some(ImageData), <<>>, NullDate, <<>>, "Other", UndefTok)
              /\ last' = Op("recognitionFailed", "", <<>>)
    /\ isAnalyzing' = FALSE
    /\ UNCHANGED <<envVars, clock, meals, goalVars, viewVars, textVars, storedMeals, storedGoal>>

(***************************************************************************)
(* Variant B: free-text entry and direct commit of the recognition result. *)
(***************************************************************************)
\* the text button (disabled while isAnalyzing), the close button of the
\* text modal, and typing into it
textModal ==
    /\ Step
    /\ variant = "B"
    /\ \/ /\ currentView = "daily" /\ ~isAnalyzing
          /\ isTextModalOpen' = TRUE /\ UNCHANGED manualText
       \/ /\ isTextModalOpen
          /\ isTextModalOpen' = FALSE /\ UNCHANGED manualText
       \/ /\ isTextModalOpen
          /\ \E v \in FoodNameInputs : manualText' = v
          /\ UNCHANGED isTextModalOpen
    /\ last' = Op("ui", "", <<>>)
    /\ UNCHANGED <<envVars, clock, meals, goalVars, viewVars, isAnalyzing, modalVars, inflight,
                   storedMeals, storedGoal>>

\* handleManualSubmit: a blank text is ignored, otherwise analyzeMeal starts
handleManualSubmit ==
    /\ Step
    /\ variant = "B"
    /\ isTextModalOpen
    /\ Trim(manualText) # <<>>
    /\ manualText' = <<>>
    /\ isTextModalOpen' = FALSE
    /\ isAnalyzing' = TRUE
    /\ inflight' = [inflight EXCEPT !.recText = @ + 1]
    /\ last' = Op("ui", "", <<>>)
    /\ UNCHANGED <<envVars, clock, meals, goalVars, viewVars, modalVars, storedMeals, storedGoal>>

\* the record analyzeMeal builds from the parsed result
analyzedMeal(id, now, result, hasImage) ==
    [id |-> id,
     timestamp |-> now,
     foodName |-> result.foodName,
     proteinGrams |-> MathRound(IF result.proteinGrams.def THEN result.proteinGrams.v ELSE NaN),
     category |-> categoryOf(result.category),
     imageUrl |-> IF hasImage THEN Some(ImageData) ELSE UndefTok]

\* analyzeMeal after the await: the result is committed, or the error alerted
analyzeMeal ==
    /\ Step
    /\ variant = "B"
    /\ \E hasImage \in BOOLEAN, out \in RecognitionOutcomes :
         /\ IF hasImage THEN inflight.recImage > 0 ELSE inflight.recText > 0
         /\ inflight' = (IF hasImage THEN [inflight EXCEPT !.recImage = @ - 1]
                                     ELSE [inflight EXCEPT !.recText = @ - 1])
         /\ IF out.ok
            THEN \E id \in Ids :
                      /\ meals' = prepend(analyzedMeal(id, Now, out.result, hasImage), meals)
                      /\ last' = [Op("create", id, todayStr) EXCEPT !.result = out.result]
            ELSE /\ meals' = meals
                 /\ last' = Op("recognitionFailed", "", <<>>)
    /\ isAnalyzing' = FALSE
    /\ goal' = goal
    /\ Persist
    /\ UNCHANGED <<envVars, clock, isEditingGoal, goalInput, viewVars, modalVars, textVars>>

(***************************************************************************)
(* The goal.                                                               *)
(***************************************************************************)
\* toggleEditGoal: the pencil / check button; variant A mounts the input
\* with defaultValue = goal
toggleEditGoal ==
    /\ Step
    /\ currentView = "daily"
    /\ isEditingGoal' = ~isEditingGoal
    /\ goalInput' = (IF variant = "A" /\ ~isEditingGoal THEN NumToString(goal) ELSE <<>>)
    /\ last' = Op("ui", "", <<>>)
    /\ UNCHANGED <<envVars, clock, meals, goal, viewVars, isAnalyzing, modalVars, textVars,
                   inflight, storedMeals, storedGoal>>

\* variant A: typing into the (uncontrolled) goal input
typeGoal ==
    /\ Step
    /\ variant = "A"
    /\ currentView = "daily"
    /\ isEditingGoal
    /\ \E v \in GoalInputs : goalInput' = v
    /\ last' = Op("ui", "", <<>>)
    /\ UNCHANGED <<envVars, clock, meals, goal, isEditingGoal, viewVars, isAnalyzing, modalVars,
                   textVars, inflight, storedMeals, storedGoal>>

\* the goal variant A keeps on blur
blurGoal(value, old) ==
    LET newGoal == parseInt(value)
    IN  IF newGoal.k # "NaN" /\ newGoal.t > 0 THEN newGoal ELSE old

\* variant A: onBlur of the goal input
goalOnBlur ==
    /\ Step
    /\ variant = "A"
    /\ currentView = "daily"
    /\ isEditingGoal
    /\ goal' = blurGoal(goalInput, goal)
    /\ isEditingGoal' = FALSE
    /\ goalInput' = <<>>
    /\ last' = Op("goalEdit", "", goalInput)
    /\ meals' = meals
    /\ Persist
    /\ UNCHANGED <<envVars, clock, viewVars, isAnalyzing, modalVars, textVars, inflight>>

\* the goal variant B sets on change: Number(e.target.value) || 0
changeGoal(value) ==
    LET n == ToNumber(value)
    IN  IF n.k = "NaN" \/ n.t = 0 THEN Num(0) ELSE n

\* variant B: onChange of the (controlled) goal input, and its onBlur
goalOnChange ==
    /\ Step
    /\ variant = "B"
    /\ currentView = "daily"
    /\ isEditingGoal
    /\ \/ \E v \in GoalInputs :
            /\ goal' = changeGoal(v)
            /\ last' = Op("goalEdit", "", v)
            /\ UNCHANGED isEditingGoal
       \/ /\ isEditingGoal' = FALSE
          /\ last' = Op("ui", "", <<>>)
          /\ UNCHANGED goal
    /\ meals' = meals
    /\ Persist
    /\ UNCHANGED <<envVars, clock, goalInput, viewVars, isAnalyzing, modalVars, textVars,
                   inflight>>

(***************************************************************************)
(* Specifications.                                                         *)
(***************************************************************************)
\* the meal store and the entry pipeline; the goal handlers read and write
\* only goal, isEditingGoal and goalInput, which no action here reads
Next ==
    \/ Restart
    \/ Tick
    \/ setCurrentView
    \/ setHistoryPeriod
    \/ setSelectedHistoryDate
    \/ clickManualAdd
    \/ clickHistoryAdd
    \/ handleEditMeal
    \/ setPending
    \/ closeModal
    \/ handleSaveMeal
    \/ deleteMeal
    \/ handleImageUpload
    \/ readerLoadEnd
    \/ recognitionSettledA
    \/ textModal
    \/ handleManualSubmit
    \/ analyzeMeal

Spec == Init /\ [][Next]_vars

\* the goal manager
NextGoal ==
    \/ Restart
    \/ setCurrentView
    \/ toggleEditGoal
    \/ typeGoal
    \/ goalOnBlur
    \/ goalOnChange

SpecGoal == Init /\ [][NextGoal]_vars

(***************************************************************************)
(* The app opened on a store persisted by earlier sessions, at any of the  *)
(* instants, and then only looked at.                                      *)
(***************************************************************************)
StoredMeal(id, ts, name, grams, category) ==
    [id |-> id, timestamp |-> ts, foodName |-> Some(name), proteinGrams |-> IntNum(grams),
     category |-> category, imageUrl |-> UndefTok]

\* what localStorage 'protein_meals_v2' may hold: nothing; three records of
\* one day; three records of different days, months and years, the first
\* of them entered last for an earlier day
PersistedMeals ==
    { <<>>,
      << StoredMeal("w5t1", [day |-> DaysFromCivil(2024, 2, 29), ms |-> 12 * HourMs], <<"e", "g", "g">>, 50, "Dinner"),
         StoredMeal("q7m2", [day |-> DaysFromCivil(2024, 2, 29), ms |-> 11 * HourMs], <<"e", "g", "g">>, 45, "Lunch"),
         StoredMeal("k3x9", [day |-> DaysFromCivil(2024, 2, 29), ms |-> 10 * HourMs], <<"e", "g", "g">>, 30, "Breakfast") >>,
      << StoredMeal("k3x9", [day |-> DaysFromCivil(2024, 2, 29), ms |-> 10 * HourMs], <<"e", "g", "g">>, 30, "Breakfast"),
         StoredMeal("w5t1", [day |-> DaysFromCivil(2024, 12, 31), ms |-> 23 * HourMs], <<"e", "g", "g">>, 50, "Dinner"),
         StoredMeal("q7m2", [day |-> DaysFromCivil(2024, 3, 3), ms |-> 8 * HourMs], <<"e", "g", "g">>, 45, "Lunch") >> }

\* what localStorage 'protein_goal' may hold
PersistedGoals == { <<"6", "0">>, <<"8", "0">>, <<"1", "2", "0">> }

InitLoad ==
    /\ variant \in Variants
    /\ tz \in TzOffsets
    /\ clock \in DOMAIN Instants
    /\ storedMeals \in PersistedMeals
    /\ storedGoal \in PersistedGoals
    /\ meals = storedMeals
    /\ goal = parseInt(storedGoal)
    /\ isEditingGoal = FALSE
    /\ goalInput = <<>>
    /\ currentView = "daily"
    /\ historyPeriod = "week"
    /\ selectedHistoryDate = NullDate
    /\ isAnalyzing = FALSE
    /\ isInputModalOpen = FALSE
    /\ editingMealId = UndefTok
    /\ pendingFoodName = <<>>
    /\ pendingProtein = <<>>
    /\ pendingCategory = "Other"
    /\ pendingImage = UndefTok
    /\ pendingDate = todayStr
    /\ isTextModalOpen = FALSE
    /\ manualText = <<>>
    /\ inflight = [reading |-> 0, recImage |-> 0, recText |-> 0]
    /\ last = Op("init", "", <<>>)
    /\ steps = 0

\* a render: today's list and the list of the selected bucket are filtered
\* and sorted, the totals and the history buckets are summed from filtered
\* copies; what the computations leave in `meals`
render ==
    /\ Step
    /\ LET afterToday == filterSort(meals, DayIndices(meals, todayStr, tz)).store
           selected == IF selectedHistoryDate = NullDate THEN {}
                       ELSE { i \in 1..Len(afterToday) :
                                StartsWith(toLocaleDateString(afterToday[i].timestamp, tz),
                                           selectedHistoryDate) }
       IN  meals' = filterSort(afterToday, selected).store
    /\ last' = Op("render", "", <<>>)
    /\ UNCHANGED <<envVars, clock, goalVars, viewVars, isAnalyzing, modalVars, textVars,
                   inflight, storedMeals, storedGoal>>

NextLoad ==
    \/ render
    \/ setCurrentView
    \/ setHistoryPeriod
    \/ setSelectedHistoryDate

SpecLoad == InitLoad /\ [][NextLoad]_vars

(***************************************************************************)
(* Claims.                                                                 *)
(***************************************************************************)
HasId(ms, id) == \E i \in 1..Len(ms) : ms[i].id = id
CountId(ms, id) == Cardinality({ i \in 1..Len(ms) : ms[i].id = id })

\* a candidate the commit is meant to accept: a name that is not blank and
\* a protein value that is a number
ValidCandidate(meal) ==
    /\ meal.foodName.def /\ Trim(meal.foodName.v) # <<>>
    /\ meal.proteinGrams.k = "number"

\* C1: right after a valid candidate is committed as a new record with the
\* default target date (today), today's list holds a record with the new id
\* exactly once.
C1_CreateListedOnce ==
    (last.op = "create" /\ last.arg = todayStr /\ ValidCandidate(meals[1]))
        => CountId(todayMeals, last.id) = 1

\* C2: a committed edit leaves the id and the timestamp of every record,
\* the edited one included, as they were, whatever date the modal shows.
C2_EditKeepsIdAndTimestamp ==
    [][ last'.op = "update" =>
          /\ Len(meals') = Len(meals)
          /\ \A i \in 1..Len(meals) : /\ meals'[i].id = meals[i].id
                                      /\ meals'[i].timestamp = meals[i].timestamp ]_vars

\* C2 witness: an edit was committed on a record that is in the store and
\* whose day is not today's.
C2_Witness ==
    /\ last.op = "update"
    /\ \E i \in 1..Len(meals) : /\ meals[i].id = last.id
                                /\ toLocaleDateString(meals[i].timestamp, tz) # todayStr

\* C3: after a confirmed delete no record with the id is in the store, in
\* today's list or in the selected-day list, and none is counted in a weekly
\* or monthly total; the id stays absent until a create.
C3_Absent(id) ==
    /\ ~HasId(meals, id)
    /\ ~HasId(todayMeals, id)
    /\ ~HasId(selectedDayMeals, id)
    /\ \A period \in {"week", "month"} :
         LET h == historyDataOf(variant, period, meals, goal, Now, tz)
             rest == SelectSeq(meals, LAMBDA m : m.id # id)
             hr == historyDataOf(variant, period, rest, goal, Now, tz)
         IN  \A i \in DOMAIN h : h[i].totalProtein = hr[i].totalProtein

C3_DeleteExcludesId ==
    /\ [](last.op = "delete" => C3_Absent(last.id))
    /\ [][ \A id \in Ids : (~HasId(meals, id) /\ last'.op # "create") => ~HasId(meals', id) ]_vars

\* C3 witness: a record was deleted and another record is still stored.
C3_Witness == last.op = "delete" /\ meals # <<>>

InvalidGoalText(s) ==
    LET n == ToNumber(s)
    IN  Trim(s) = <<>> \/ n.k # "number" \/ n.t <= 0 \/ n.t % 10 # 0

\* C5: a goal edit whose input is non-positive or non-integer is rejected
\* and leaves the goal as it was.
C5_InvalidGoalRejected ==
    [][ (last'.op = "goalEdit" /\ InvalidGoalText(last'.arg)) => goal' = goal ]_vars

\* C6: in every reachable state the goal is a positive integer.
C6_GoalPositiveInteger == goal.k = "number" /\ goal.t > 0 /\ goal.t % 10 = 0

\* C7: every stored record has a proteinGrams that is an integer >= 0.
C7_ProteinNonNegativeInteger ==
    \A i \in 1..Len(meals) :
        IsIntegerNum(meals[i].proteinGrams) /\ meals[i].proteinGrams.t >= 0

\* C8: every stored record has a foodName that is a string and is not
\* empty after trimming.
C8_FoodNameNonBlank ==
    \A i \in 1..Len(meals) : meals[i].foodName.def /\ Trim(meals[i].foodName.v) # <<>>

\* C9: every stored record has a category of the enumeration, and a
\* recognition result whose category is outside it gives a candidate of
\* category Other.
C9_CategoryInEnumeration ==
    /\ \A i \in 1..Len(meals) : meals[i].category \in Categories
    /\ (last.op = "recognized" /\ last.arg.def /\ last.arg.v \notin Categories)
          => pendingCategory = "Other"

\* C10: no two stored records have the same id.
C10_IdsUnique ==
    \A i, j \in 1..Len(meals) : i # j => meals[i].id # meals[j].id
\* a parsed recognition result that has all three fields
Complete(r) == r.foodName.def /\ r.proteinGrams.def /\ r.category.def

\* C11: a recognition call that fails, or whose result lacks foodName,
\* proteinGrams or category, adds or changes no record, and (where a
\* candidate is staged) the candidate is empty.
C11_FailedRecognitionCommitsNothing ==
    [][ ( /\ \/ last'.op \in {"recognized", "recognitionFailed"}
             \/ (variant = "B" /\ last'.op = "create")
          /\ last'.op = "recognitionFailed" \/ ~Complete(last'.result) )
        => /\ meals' = meals
           /\ variant = "A" => /\ pendingFoodName' = <<>>
                               /\ pendingProtein' = <<>>
                               /\ pendingCategory' = "Other" ]_vars

\* C12: at most one recognition call is in flight at any time.
C12_OneRecognitionInFlight == inflight.recImage + inflight.recText <= 1

\* the candidate in the form after the step
Staged(name, protein, category, img) ==
    /\ pendingFoodName' = name
    /\ pendingProtein' = protein
    /\ pendingCategory' = category
    /\ pendingImage' = img

\* C13: closing the review modal leaves the store unchanged and commits
\* nothing; while the modal is closed no commit happens; and every opening
\* of the modal stages a candidate given by the opener alone (empty, the
\* record to edit, or the recognition result), so that nothing of a
\* discarded candidate reaches a later commit unless it is entered again.
C13_CloseDiscardsCandidate ==
    [][ /\ last'.op = "close" => (meals' = meals /\ ~isInputModalOpen')
        /\ (variant = "A" /\ ~isInputModalOpen) => last'.op \notin {"create", "update", "rejected"}
        /\ last'.op = "open" => Staged(<<>>, <<>>, "Other", UndefTok)
        /\ last'.op = "edit" =>
              \E i \in 1..Len(meals) :
                  /\ meals[i].id = last'.id
                  /\ Staged(IF meals[i].foodName.def THEN meals[i].foodName.v ELSE <<>>,
                            NumToString(meals[i].proteinGrams), meals[i].category,
                            meals[i].imageUrl)
        /\ last'.op = "recognitionFailed" /\ variant = "A"
              => Staged(<<>>, <<>>, "Other", Some(ImageData))
        /\ last'.op = "recognized" =>
              Staged(IF TruthyStr(last'.result.foodName) THEN last'.result.foodName.v ELSE <<>>,
                     IF last'.result.proteinGrams.def
                         THEN NumToString(last'.result.proteinGrams.v) ELSE <<>>,
                     IF Truthy(last'.result.category) THEN last'.result.category.v ELSE "Other",
                     Some(ImageData)) ]_vars

\* a valid candidate was discarded: the modal was closed on a form that a
\* submit would have committed
C13_Witness ==
    /\ last.op = "close"
    /\ Trim(pendingFoodName) # <<>>
    /\ parseFloat(pendingProtein).k = "number"

\* a form whose name is blank or whose protein is not a finite number >= 0
InvalidCommit ==
    \/ Trim(pendingFoodName) = <<>>
    \/ parseFloat(pendingProtein).k # "number"
    \/ parseFloat(pendingProtein).t < 0

\* C14: a commit of a form with a blank name or a protein input that is
\* not a finite number >= 0 is rejected: the store is unchanged and the
\* modal stays open.
C14_InvalidCommitRejected ==
    [][ ( /\ variant = "A" /\ isInputModalOpen /\ InvalidCommit
          /\ last'.op \in {"rejected", "update", "create"} )
        => (meals' = meals /\ isInputModalOpen') ]_vars
\* totals and goals the aggregation functions are evaluated on (tenths)
TotalInputs == { Num(-50), Num(0), Num(25), Num(300), Num(600), Num(1250) }
GoalValues == { Num(-50), Num(0), Num(25), Num(600), Num(1200) }

\* p <= q for two percentages n / d
PercentLeq(p, q) == p.k = "number" /\ q.k = "number" /\ p.n * q.d <= q.n * p.d
InPercentRange(p) == p.k = "number" /\ p.n >= 0 /\ p.n <= 100 * p.d

\* C15: for a fixed positive goal progressPercent is non-decreasing in the
\* total, for a total >= 0 it lies in [0, 100], and the progress percent
\* displayed in a reachable state is a number in [0, 100].
C15_ProgressWithinRange ==
    /\ \A g \in GoalValues \cup {goal} : \A t1, t2 \in TotalInputs \cup {todayStats} :
          (g.k = "number" /\ g.t > 0 /\ t1.k = "number" /\ t2.k = "number" /\ t1.t <= t2.t)
             => PercentLeq(progressPercentOf(t1, g), progressPercentOf(t2, g))
    /\ \A g \in GoalValues \cup {goal} : \A t \in TotalInputs \cup {todayStats} :
          (g.k = "number" /\ g.t > 0 /\ t.k = "number" /\ t.t >= 0)
             => InPercentRange(progressPercentOf(t, g))
    /\ InPercentRange(progressPercent)

\* C16: remaining is >= 0 for every total and goal and is 0 whenever the
\* total is at least the goal; so is the remaining amount displayed.
C16_RemainingNonNegative ==
    /\ \A g \in GoalValues \cup {goal} : \A t \in TotalInputs \cup {todayStats} :
          (g.k = "number" /\ t.k = "number")
             => /\ remainingOf(t, g).k = "number"
                /\ remainingOf(t, g).t >= 0
                /\ t.t >= g.t => remainingOf(t, g) = Num(0)
    /\ variant = "A" => /\ remaining.k = "number"
                        /\ remaining.t >= 0
                        /\ todayStats.t >= goal.t => remaining = Num(0)

\* the day's total has reached the goal
C16_Witness == variant = "A" /\ todayStats.t > 0 /\ todayStats.t >= goal.t /\ remaining = Num(0)

\* the scenario: goal 120 and three records of 30, 45 and 50 grams today
C17_Scenario ==
    /\ goal = IntNum(120)
    /\ Len(todayMeals) = 3
    /\ { todayMeals[i].proteinGrams : i \in 1..3 } = { IntNum(30), IntNum(45), IntNum(50) }

\* C17: todayTotal is the sum of proteinGrams over exactly the records whose
\* local day key is today's; in the scenario it is 125, the progress percent
\* is 100 and the remaining amount is 0.
C17_TodayTotal ==
    /\ todayStats = SumProtein(meals, { i \in 1..Len(meals) :
                                          toLocaleDateString(meals[i].timestamp, tz) = todayStr })
    /\ C17_Scenario => /\ todayStats = IntNum(125)
                       /\ progressPercent = [k |-> "number", n |-> 100, d |-> 1]
                       /\ remaining = Num(0)

C17_Witness == C17_Scenario /\ Len(meals) = 3

\* the day number of the Monday on or before a day (day 0 is a Thursday)
MondayOf(day) == day - ((day + 3) % 7)

\* C18: the weekly summaries are 7 entries, the days from the Monday to the
\* Sunday of the week of now in order, each with the goal and the sum of
\* proteinGrams of the records of that day.
C18_WeekMondayToSunday ==
    LET w == historyDataOf(variant, "week", meals, goal, Now, tz)
        monday == MondayOf(LocalDay(Now, tz))
    IN  /\ DOMAIN w = 1..7
        /\ \A i \in 1..7 :
              /\ w[i].date = CivilFromDays(monday + i - 1)
              /\ w[i].goal = goal
              /\ w[i].totalProtein =
                    reduceProtein(SelectSeq(meals, LAMBDA m :
                        toLocaleDateString(m.timestamp, tz) = w[i].date), Num(0))

\* now is a Sunday, of a week that began in another month, and the weekly
\* chart is on screen with a record in it
C18_Witness ==
    /\ getDay(Now, tz) = 0
    /\ currentView = "history" /\ historyPeriod = "week"
    /\ historyData[1].date[2] # historyData[7].date[2]
    /\ \E i \in 1..7 : historyData[i].totalProtein.t > 0

\* the key <<year, month>> of the month numbered k = 12 * year + month - 1
MonthKey(k) == <<k \div 12, (k % 12) + 1>>
MonthNumber(key) == 12 * key[1] + key[2] - 1

\* C19: the monthly summaries are 6 entries, the current month and the 5
\* before it, oldest first.
C19_SixTrailingMonths ==
    LET m == historyDataOf(variant, "month", meals, goal, Now, tz)
        today == toLocaleDateString(Now, tz)
        current == MonthNumber(<<today[1], today[2]>>)
    IN  /\ DOMAIN m = 1..6
        /\ \A i \in 1..6 : m[i].date = MonthKey(current - (6 - i))

\* the number of days of the month <<year, month>>
CalendarDays(key) ==
    LET next == MonthKey(MonthNumber(key) + 1)
    IN  DaysFromCivil(next[1], next[2], 1) - DaysFromCivil(key[1], key[2], 1)

\* C20: every monthly summary has goal x (the number of days of the month
\* its key names).
C20_MonthGoalUsesCalendarDays ==
    LET m == historyDataOf(variant, "month", meals, goal, Now, tz)
    IN  \A i \in DOMAIN m : m[i].goal = Num(goal.t * CalendarDays(m[i].date))
\* C21: a create whose target date D is not today gives a record whose
\* timestamp has local day key D and the current local time of day, in
\* every time zone; it is listed under D and under no other day.
C21_BackdatedCreateOnTargetDay ==
    (variant = "A" /\ last.op = "create" /\ last.arg # todayStr)
       => /\ toLocaleDateString(meals[1].timestamp, tz) = last.arg
          /\ getHours(meals[1].timestamp, tz) = getHours(Now, tz)
          /\ getMinutes(meals[1].timestamp, tz) = getMinutes(Now, tz)
          /\ getSeconds(meals[1].timestamp, tz) = getSeconds(Now, tz)

\* a record belongs to a bucket: a day <<y, m, d>> or a month <<y, m>>
InBucket(meal, key) ==
    SubSeq(toLocaleDateString(meal.timestamp, tz), 1, Len(key)) = key

\* C22: the list shown for a selected bucket holds exactly the records of
\* that bucket, each once, ordered by timestamp descending.
C22_SelectedDayExact ==
    selectedHistoryDate # NullDate =>
        LET list == selectedDayMeals
            S == { i \in 1..Len(meals) : InBucket(meals[i], selectedHistoryDate) }
        IN  /\ Len(list) = Cardinality(S)
            /\ \A i \in S : \E k \in 1..Len(list) : list[k] = meals[i]
            /\ \A k \in 1..Len(list) : InBucket(list[k], selectedHistoryDate)
            /\ \A k, l \in 1..Len(list) :
                  k < l => ~Later(list[l].timestamp, list[k].timestamp)

\* a bucket is selected that holds some records of the store and not others
C22_Witness ==
    /\ selectedHistoryDate # NullDate
    /\ currentView = "history"
    /\ selectedDayMeals # <<>>
    /\ \E i \in 1..Len(meals) : ~InBucket(meals[i], selectedHistoryDate)

\* C23: after every mutation the persisted collection equals the in-memory
\* collection and the persisted goal the in-memory goal, and loading the
\* persisted values gives the same meals and goal.
C23_PersistenceRoundTrip ==
    /\ storedMeals = meals
    /\ storedGoal = NumToString(goal)
    /\ parseInt(storedGoal) = goal
\* C24: computing today's list and total, the weekly and monthly summaries
\* and the list of a selected bucket leaves the store as it was, records
\* and order, and computing them again gives the same values.
C24_ViewsArePure ==
    [][ last'.op = "render" =>
           /\ meals' = meals
           /\ todayMealsOf(meals', todayStr, tz) = todayMeals
           /\ reduceProtein(todayMealsOf(meals', todayStr, tz), Num(0)) = todayStats
           /\ selectedDayMeals' = selectedDayMeals
           /\ historyDataOf(variant, "week", meals', goal, Now, tz)
                 = historyDataOf(variant, "week", meals, goal, Now, tz)
           /\ historyDataOf(variant, "month", meals', goal, Now, tz)
                 = historyDataOf(variant, "month", meals, goal, Now, tz) ]_vars

\* the views were computed on a store that is not in descending order of
\* timestamp, with records of today in it
C24_Witness ==
    /\ last.op = "render"
    /\ todayMeals # <<>>
    /\ \E i, j \in 1..Len(meals) : i < j /\ Later(meals[j].timestamp, meals[i].timestamp)

\* C25: month bucketing uses local time: in the monthly history each
\* summary's key is the year and month, in local time, of the month it was
\* built for, and its total is the sum over exactly the records whose local
\* day key starts with that key, at every timezone offset
C25_MonthBucketsLocal ==
    historyPeriod = "month" =>
        \A i \in DOMAIN historyData :
            LET e == historyData[i]
                back == IF variant = "A" THEN i - 3 ELSE i - 6
                d == MakeLocalDate(getFullYear(Now, tz), getMonth(Now, tz) + back, 1, tz)
            IN  /\ e.date = SubSeq(toLocaleDateString(d, tz), 1, 2)
                /\ e.totalProtein =
                      SumProtein(meals, { j \in 1..Len(meals) :
                                           StartsWith(toLocaleDateString(meals[j].timestamp, tz),
                                                      e.date) })

\* the recognition calls in flight
Recognizing == inflight.recImage + inflight.recText

\* C26: a record of a photo or text entry is committed only after review:
\* the store never grows in the step in which a recognition call completes,
\* a record is added only by a submit of the open review modal
C26_CreateOnlyAfterReview ==
    [][ Len(meals') > Len(meals) =>
           /\ isInputModalOpen
           /\ Recognizing' = Recognizing ]_vars

\* C27: the completion of an upload's recognition call while the review
\* modal is open leaves the candidate under review and the edit target as
\* they are
C27_CompletionKeepsCandidate ==
    [][ (isInputModalOpen /\ last'.op \in {"recognized", "recognitionFailed"}) =>
           UNCHANGED <<pendingFoodName, pendingProtein, pendingCategory, pendingImage,
                       pendingDate, editingMealId>> ]_vars

\* C28: isAnalyzing is true whenever a recognition call is in flight, is
\* false when none is, and is never cleared while a call is still in flight
C28_AnalyzingWhileInFlight == isAnalyzing <=> Recognizing > 0

\* the number of records among the first i of ms with an id other than id
OthersUpTo(ms, id, i) == Cardinality({ j \in 1..i : ms[j].id # id })

\* C29: each store mutation touches only its target: a create adds exactly
\* one record in front of the unchanged existing records, an update keeps
\* the size of the store and every record with a different id, a confirmed
\* delete of an id in the store removes the records with that id and keeps
\* every other record, in order
C29_MutationTouchesOnlyTarget ==
    [][ /\ last'.op = "create" =>
              /\ Len(meals') = Len(meals) + 1
              /\ \A i \in 1..Len(meals) : meals'[i + 1] = meals[i]
        /\ last'.op = "update" =>
              /\ Len(meals') = Len(meals)
              /\ \A i \in 1..Len(meals) : meals[i].id # last'.id => meals'[i] = meals[i]
        /\ (last'.op = "delete" /\ HasId(meals, last'.id)) =>
              /\ ~HasId(meals', last'.id)
              /\ Len(meals') = OthersUpTo(meals, last'.id, Len(meals))
              /\ \A i \in 1..Len(meals) :
                     meals[i].id # last'.id => meals'[OthersUpTo(meals, last'.id, i)] = meals[i]
      ]_vars

\* a record was created in a store that already held a record with its id
C29_Witness ==
    /\ last.op = "create"
    /\ \E i \in 2..Len(meals) : meals[i].id = last.id

\* C30: editingMealId is null whenever the review modal is closed, and an
\* entry opened for a new meal (manual, history add, photo) has no edit
\* target, so its submit creates a record
C30_NoEditTargetWhenClosed ==
    /\ [](~isInputModalOpen => ~editingMealId.def)
    /\ [][ (variant = "A" /\ last'.op \in {"open", "recognized", "recognitionFailed"}) =>
              /\ isInputModalOpen'
              /\ ~editingMealId'.def ]_vars

\* an edit was cancelled with the close button: the modal is closed and
\* still holds the fields of the record that was being edited
C30_Witness ==
    /\ last.op = "close"
    /\ ~isInputModalOpen
    /\ \E i \in 1..Len(meals) :
          /\ meals[i].foodName = Some(pendingFoodName)
          /\ NumToString(meals[i].proteinGrams) = pendingProtein
          /\ meals[i].imageUrl = pendingImage
====
